---- MODULE Spec2Model ----
(***************************************************************************)
(* Signal engine (screen_and_exit) and single-symbol backtest simulator    *)
(* (run_backtest_for_code) of tw_stock_pipeline.py.                        *)
(*                                                                         *)
(* Floats are modelled as exact rationals <<num, den>> in lowest terms,    *)
(* with the IEEE special values NaN = <<0,0>>, +inf = <<1,0>> and          *)
(* -inf = <<-1,0>>; rounding error is not modelled.  A pandas Series is a  *)
(* sequence of such values, a DataFrame a sequence of bar records.         *)
(***************************************************************************)
EXTENDS Integers, Sequences, FiniteSets, TLC

(***************************************************************************)
(* Float arithmetic                                                        *)
(***************************************************************************)
AbsI(n) == IF n < 0 THEN -n ELSE n

SignI(n) == IF n < 0 THEN -1 ELSE IF n > 0 THEN 1 ELSE 0

RECURSIVE GCD(_, _)
GCD(a, b) == IF b = 0 THEN a ELSE GCD(b, a % b)

\* n/d with d >= 0, in lowest terms; x/0 is +-inf, 0/0 is NaN
Rat(n, d) ==
    IF d = 0 THEN <<SignI(n), 0>>
    ELSE LET g == GCD(AbsI(n), d) IN <<n \div g, d \div g>>

NaN == <<0, 0>>

F(n) == <<n, 1>>

IsNaN(x) == x = NaN

Add(x, y) ==
    IF x[2] = 1 /\ y[2] = 1 THEN <<x[1] + y[1], 1>>
    ELSE IF x[2] = 0 /\ y[2] = 0 THEN (IF x[1] = y[1] THEN x ELSE NaN)
    ELSE IF x[2] = 0 THEN x
    ELSE IF y[2] = 0 THEN y
    ELSE LET g == GCD(x[2], y[2])
         IN Rat(x[1] * (y[2] \div g) + y[1] * (x[2] \div g), (x[2] \div g) * y[2])

Neg(x) == <<-x[1], x[2]>>

Sub(x, y) == Add(x, Neg(y))

Mul(x, y) ==
    IF x[2] = 1 /\ y[2] = 1 THEN <<x[1] * y[1], 1>> ELSE Rat(x[1] * y[1], x[2] * y[2])

Div(x, y) == Rat(SignI(y[1]) * x[1] * y[2] + (IF y[1] = 0 THEN x[1] ELSE 0) * y[2],
                 x[2] * AbsI(y[1]))

AbsF(x) == <<AbsI(x[1]), x[2]>>

\* comparisons: every comparison with NaN is false
Lt(x, y) ==
    /\ ~IsNaN(x)
    /\ ~IsNaN(y)
    /\ IF x[2] = y[2] /\ x[2] # 0 THEN x[1] < y[1]
       ELSE IF x[2] = 0 \/ y[2] = 0
       THEN (IF x[2] = 0 /\ y[2] = 0 THEN x[1] < y[1]
             ELSE IF x[2] = 0 THEN x[1] < 0 ELSE y[1] > 0)
       ELSE LET g == GCD(x[2], y[2])
            IN x[1] * (y[2] \div g) < y[1] * (x[2] \div g)

Gt(x, y) == Lt(y, x)

Le(x, y) == ~IsNaN(x) /\ ~IsNaN(y) /\ ~Lt(y, x)

Ge(x, y) == Le(y, x)

\* int(x // 1) for a finite x
FloorF(x) == x[1] \div x[2]

(***************************************************************************)
(* pandas Series operations                                                *)
(***************************************************************************)
RECURSIVE SumRange(_, _, _)
SumRange(s, a, b) == IF a > b THEN F(0) ELSE Add(s[a], SumRange(s, a + 1, b))

MinF(x, y) == IF Lt(y, x) THEN y ELSE x

MaxF(x, y) == IF Gt(y, x) THEN y ELSE x

RECURSIVE MinRange(_, _, _)
MinRange(s, a, b) == IF a = b THEN s[a] ELSE MinF(s[a], MinRange(s, a + 1, b))

RECURSIVE MaxRange(_, _, _)
MaxRange(s, a, b) == IF a = b THEN s[a] ELSE MaxF(s[a], MaxRange(s, a + 1, b))

\* an array with its elements computed once
Materialize(s) == SubSeq(s, 1, Len(s))

\* elementwise binary operation on two aligned series
ZipWith(Op(_, _), a, b) == Materialize([t \in 1..Len(a) |-> Op(a[t], b[t])])

\* elementwise unary operation
MapS(Op(_), a) == Materialize([t \in 1..Len(a) |-> Op(a[t])])

\* a rolling(n) window ending at t is defined once it holds n observations;
\* rolling reads +-inf as NaN, so only finite values count
WindowOk(s, n, t) == t >= n /\ \A j \in (t - n + 1)..t : s[j][2] # 0

RollingSum(s, n) ==
    Materialize([t \in 1..Len(s) |->
        IF WindowOk(s, n, t) THEN SumRange(s, t - n + 1, t) ELSE NaN])

RollingMean(s, n) ==
    Materialize([t \in 1..Len(s) |->
        IF WindowOk(s, n, t) THEN Div(SumRange(s, t - n + 1, t), F(n)) ELSE NaN])

RollingMin(s, n) ==
    Materialize([t \in 1..Len(s) |->
        IF WindowOk(s, n, t) THEN MinRange(s, t - n + 1, t) ELSE NaN])

RollingMax(s, n) ==
    Materialize([t \in 1..Len(s) |->
        IF WindowOk(s, n, t) THEN MaxRange(s, t - n + 1, t) ELSE NaN])

\* s.diff(): NaN on the first row
DiffS(s) == Materialize([t \in 1..Len(s) |-> IF t = 1 THEN NaN ELSE Sub(s[t], s[t - 1])])

\* s.shift(1)
Shift1(s) == Materialize([t \in 1..Len(s) |-> IF t = 1 THEN NaN ELSE s[t - 1]])

\* s.dropna()
DropNa(s) == SelectSeq(s, LAMBDA x : ~IsNaN(x))

\* s.tail(n)
Tail_n(s, n) == IF n >= Len(s) THEN s ELSE SubSeq(s, Len(s) - n + 1, Len(s))

\* np.all(a < b) elementwise on two arrays of one length
AllLt(a, b) == \A j \in 1..Len(a) : Lt(a[j], b[j])

last_scalar(s) == IF Len(s) = 0 THEN NaN ELSE s[Len(s)]

(***************************************************************************)
(* Technical indicators                                                    *)
(***************************************************************************)
RECURSIVE EwmAcc(_, _, _)
EwmAcc(s, span, acc) ==
    IF Len(acc) = Len(s) THEN acc
    ELSE LET t == Len(acc) + 1
         IN EwmAcc(s, span,
                   Append(acc, IF t = 1 THEN s[1]
                               ELSE Div(Add(Mul(F(2), s[t]), Mul(F(span - 1), acc[t - 1])),
                                        F(span + 1))))

\* s.ewm(span=span, adjust=False).mean(): alpha = 2/(span+1), seeded by s[0]
ema(s, span) == EwmAcc(s, span, <<>>)

\* max of two entries of a row, a NaN entry skipped
RowMax(x, y) == IF IsNaN(x) THEN y ELSE IF IsNaN(y) THEN x ELSE MaxF(x, y)

AbsDiff(x, y) == AbsF(Sub(x, y))

\* row-wise max of (h-l, |h-pc|, |l-pc|), NaN entries skipped
true_range(h, l, c) ==
    LET pc == Shift1(c)
        tr1 == ZipWith(Sub, h, l)
        tr2 == ZipWith(AbsDiff, h, pc)
        tr3 == ZipWith(AbsDiff, l, pc)
    IN ZipWith(RowMax, tr1, ZipWith(RowMax, tr2, tr3))

\* np.where((a > b) & (a > 0), a, 0.0), then .abs()
DirectionalMove(a, b) == IF Gt(a, b) /\ Gt(a, F(0)) THEN AbsF(a) ELSE F(0)

\* 100 * rolling sum / ATR
DirectionalIndex(dm_sum, atr_v) == Div(Mul(F(100), dm_sum), atr_v)

\* 100 * |+DI - -DI| / (+DI + -DI)
DxOf(plus_di, minus_di) ==
    Div(Mul(F(100), AbsF(Sub(plus_di, minus_di))), Add(plus_di, minus_di))

adx(h, l, c, n) ==
    LET up == DiffS(h)
        down == MapS(Neg, DiffS(l))
        plus_dm == ZipWith(DirectionalMove, up, down)
        minus_dm == ZipWith(DirectionalMove, down, up)
        atr_v == RollingMean(true_range(h, l, c), n)
        plus_di == ZipWith(DirectionalIndex, RollingSum(plus_dm, n), atr_v)
        minus_di == ZipWith(DirectionalIndex, RollingSum(minus_dm, n), atr_v)
        dx == ZipWith(DxOf, plus_di, minus_di)
    IN RollingMean(dx, n)

\* 100 * (c - ll) / (hh - ll) on one row
FastK(c_ll, hh_ll) == Div(Mul(F(100), c_ll), hh_ll)

stochastic_kd(h, l, c, n, k_smooth, d_smooth) ==
    LET ll == RollingMin(l, n)
        hh == RollingMax(h, n)
        fast_k == ZipWith(FastK, ZipWith(Sub, c, ll), ZipWith(Sub, hh, ll))
        k == RollingMean(fast_k, k_smooth)
        d == RollingMean(k, d_smooth)
    IN [k |-> k, d |-> d]

macd(c, fast, slow, signal) ==
    LET fast_ == ema(c, fast)
        slow_ == ema(c, slow)
        macd_line == ZipWith(Sub, fast_, slow_)
        signal_line == ema(macd_line, signal)
        hist == ZipWith(Sub, macd_line, signal_line)
    IN [macd_line |-> macd_line, signal_line |-> signal_line, hist |-> hist]

(***************************************************************************)
(* Signal engine                                                           *)
(***************************************************************************)
\* df[~df.index.duplicated(keep="last")]
DropDuplicated(df) ==
    LET keep == {t \in 1..Len(df) : \A u \in (t + 1)..Len(df) : df[u].Date # df[t].Date}
        RECURSIVE Pick(_)
        Pick(t) == IF t > Len(df) THEN <<>>
                   ELSE IF t \in keep THEN <<df[t]>> \o Pick(t + 1) ELSE Pick(t + 1)
    IN Pick(1)

\* trailing inst_lookback-bar sum of the institutional series (NaN without one)
inst_4w_sum_of(cfg, inst_series) ==
    IF ~inst_series.given THEN NaN
    ELSE IF Len(DropNa(inst_series.values)) >= cfg.inst_lookback
         THEN last_scalar(RollingSum(inst_series.values, cfg.inst_lookback))
         ELSE NaN

\* exit_reasons.append(r) when the rule fires
AppendIf(reasons, fires, r) == IF fires THEN Append(reasons, r) ELSE reasons

\* the five gating entry conditions
\* mutant: the institutional condition gates the entry
entry_pass_with_inst(cond1, cond2, cond3, cond4, cond5, cond6) ==
    cond1 /\ cond2 /\ cond3 /\ cond4 /\ cond5 /\ cond6

\* mutant: entry does not look at the close against the EMA
entry_pass_any_trend(cond1, cond2, cond3, cond4, cond5, cond6) ==
    cond2 /\ cond3 /\ cond4 /\ cond5

entry_pass_of(cond1, cond2, cond3, cond4, cond5, cond6) ==
    cond1 /\ cond2 /\ cond3 /\ cond4 /\ cond5

\* the ADX weakening rule on the whole ADX series
\* mutant: the weakening rule also wants the last ADX under the threshold
adx_weaken_needs_low(cfg, adxN) ==
    LET weaken_n == cfg.exit_adx_weak_bars
        diffs == Tail_n(DropNa(DiffS(adxN)), weaken_n)
    IN /\ Lt(last_scalar(adxN), F(cfg.exit_adx_weak_threshold))
       /\ Len(DropNa(adxN)) >= weaken_n + 1
       /\ Len(diffs) = weaken_n
       /\ \A j \in 1..Len(diffs) : Lt(diffs[j], F(0))

adx_weaken_fires(cfg, adxN) ==
    LET weaken_n == cfg.exit_adx_weak_bars
        diffs == Tail_n(DropNa(DiffS(adxN)), weaken_n)
    IN /\ Len(DropNa(adxN)) >= weaken_n + 1
       /\ Len(diffs) = weaken_n
       /\ \A j \in 1..Len(diffs) : Lt(diffs[j], F(0))

\* mutant: the death cross read without its overbought condition
kd_death_any_level(k, d) ==
    /\ Len(DropNa(k)) >= 2
    /\ Gt(k[Len(k) - 1], d[Len(d) - 1])
    /\ Lt(last_scalar(k), last_scalar(d))

\* K above 80 and above D on the previous bar, below D on the last bar
kd_death_fires(k, d) ==
    /\ Len(DropNa(k)) >= 2
    /\ Gt(k[Len(k) - 1], F(80))
    /\ Gt(k[Len(k) - 1], d[Len(d) - 1])
    /\ Lt(last_scalar(k), last_scalar(d))

\* mutant: only the last bar is compared with the EMA
trend_break_last_bar_only(cfg, c, ema_val) ==
    /\ cfg.exit_ema_break_bars > 0
    /\ Len(c) >= cfg.exit_ema_break_bars
    /\ Lt(c[Len(c)], ema_val[Len(ema_val)])

\* close stayed below the EMA on the last N bars
trend_break_fires(cfg, c, ema_val) ==
    LET N == cfg.exit_ema_break_bars
    IN /\ N > 0
       /\ Len(c) >= N
       /\ AllLt(Tail_n(c, N), Tail_n(ema_val, N))

\* mutant: an exit toggle that is read as on whatever it says
toggle_stuck_on(flag) == TRUE

\* bool(cfg[...]) of an exit toggle
toggle_on(flag) == flag

\* np.clip(x, lo, hi): a NaN stays NaN
Clip(x, lo, hi) ==
    IF IsNaN(x) THEN NaN ELSE IF Lt(x, lo) THEN lo ELSE IF Gt(x, hi) THEN hi ELSE x

\* Python max(0.0, x): x only when x > 0.0, so 0.0 for a NaN
PyMax0(x) == IF Gt(x, F(0)) THEN x ELSE F(0)

\* np.tanh, by the rational sigmoid x / (1 + |x|): same sign, same zero,
\* increasing, within [-1, 1], NaN for NaN
Tanh(x) == IF x[2] = 0 THEN x ELSE Div(x, Add(F(1), AbsF(x)))

trend_ratio_of(close_last, ema_last) ==
    Clip(IF Gt(ema_last, F(0)) THEN Div(close_last, ema_last) ELSE F(0), F(0), F(2))

vol_ratio_of(vfast_last, vslow_last) ==
    Clip(IF Gt(vslow_last, F(0)) THEN Div(vfast_last, vslow_last) ELSE F(0), F(0), F(3))

adx_ratio_of(cfg, adx_last) ==
    Clip(IF cfg.adx_min > 0 THEN Div(adx_last, F(cfg.adx_min)) ELSE F(0), F(0), F(2))

macd_mom_of(hist_last, close_last) ==
    PyMax0(IF Gt(close_last, F(0)) THEN Div(hist_last, close_last) ELSE F(0))

\* mutant: the institutional score keeps the sign of the trailing sum
inst_score_signed(cfg, inst_4w_sum) ==
    IF ~IsNaN(inst_4w_sum) /\ Gt(cfg.inst_norm, F(0))
    THEN Tanh(Div(inst_4w_sum, cfg.inst_norm))
    ELSE F(0)

inst_score_of(cfg, inst_4w_sum) ==
    IF ~IsNaN(inst_4w_sum) /\ Gt(cfg.inst_norm, F(0))
    THEN PyMax0(Tanh(Div(inst_4w_sum, cfg.inst_norm)))
    ELSE F(0)

\* the weighted sum, in the order the code adds its terms
score_of(cfg, trend_ratio, vol_ratio, adx_ratio, macd_mom, inst_score) ==
    Add(Add(Add(Add(Mul(cfg.score_w_trend, trend_ratio),
                    Mul(cfg.score_w_vol, vol_ratio)),
                Mul(cfg.score_w_adx, adx_ratio)),
            Mul(cfg.score_w_macd, macd_mom)),
        Mul(cfg.score_w_inst, inst_score))

screen_and_exit(df0, cfg, inst_series) ==
    LET df == DropDuplicated(df0)
        c == Materialize([t \in 1..Len(df) |-> F(df[t].Close)])
        h == Materialize([t \in 1..Len(df) |-> F(df[t].High)])
        l == Materialize([t \in 1..Len(df) |-> F(df[t].Low)])
        v == Materialize([t \in 1..Len(df) |-> F(df[t].Volume)])
        ema_val == ema(c, cfg.ema_period)
        vol_fast == RollingMean(v, cfg.vol_fast)
        vol_slow == RollingMean(v, cfg.vol_slow)
        kd == stochastic_kd(h, l, c, cfg.kd_n, cfg.kd_k, cfg.kd_d)
        k == kd.k
        d == kd.d
        adxN == adx(h, l, c, cfg.adx_period)
        m == macd(c, cfg.macd_fast, cfg.macd_slow, cfg.macd_signal)
        ma5 == RollingMean(c, 5)
        close_last == last_scalar(c)
        ema_last == last_scalar(ema_val)
        vfast_last == last_scalar(vol_fast)
        vslow_last == last_scalar(vol_slow)
        k_last == last_scalar(k)
        d_last == last_scalar(d)
        adx_last == last_scalar(adxN)
        macd_last == last_scalar(m.macd_line)
        sig_last == last_scalar(m.signal_line)
        hist_last == last_scalar(m.hist)
        ma5_last == last_scalar(ma5)
        inst_4w_sum == inst_4w_sum_of(cfg, inst_series)
        cond1 == Ge(close_last, ema_last)
        cond2 == Ge(vfast_last, vslow_last)
        cond3 == /\ Le(F(cfg.kmin), k_last) /\ Le(k_last, F(cfg.kmax))
                 /\ Le(F(cfg.dmin), d_last) /\ Le(d_last, F(cfg.dmax))
        cond4 == Gt(adx_last, F(cfg.adx_min))
        macd_pos == IF cfg.macd_require_positive THEN Gt(macd_last, F(0)) ELSE TRUE
        macd_cross == IF cfg.macd_require_cross THEN Gt(macd_last, sig_last) ELSE TRUE
        cond5 == macd_pos /\ macd_cross
        cond6 == IF ~IsNaN(inst_4w_sum) THEN Gt(inst_4w_sum, F(0)) ELSE FALSE
        entry_pass == entry_pass_of(cond1, cond2, cond3, cond4, cond5, cond6)
        inst_score == inst_score_of(cfg, inst_4w_sum)
        score == score_of(cfg, trend_ratio_of(close_last, ema_last),
                          vol_ratio_of(vfast_last, vslow_last),
                          adx_ratio_of(cfg, adx_last),
                          macd_mom_of(hist_last, close_last), inst_score)
        r1 == AppendIf(<<>>, trend_break_fires(cfg, c, ema_val), "trend_break_EMA")
        r2 == AppendIf(r1, /\ toggle_on(cfg.exit_volume_fade)
                           /\ Lt(vfast_last, vslow_last)
                           /\ Lt(close_last, ma5_last), "volume_fade")
        r3 == AppendIf(r2, /\ toggle_on(cfg.exit_macd_flip)
                           /\ Lt(macd_last, sig_last)
                           /\ Lt(macd_last, F(0)), "macd_flip_down")
        r4 == AppendIf(r3, /\ toggle_on(cfg.exit_adx_weaken)
                           /\ Lt(adx_last, F(cfg.exit_adx_weak_threshold)),
                       "adx_below_threshold")
        r5 == AppendIf(r4, toggle_on(cfg.exit_adx_weaken) /\ adx_weaken_fires(cfg, adxN),
                       "adx_weaken")
        r6 == AppendIf(r5, toggle_on(cfg.exit_kd_death_high) /\ kd_death_fires(k, d),
                       "kd_death_cross_>80")
    IN [metrics |-> [close |-> close_last, ema |-> ema_last,
                     vfast |-> vfast_last, vslow |-> vslow_last,
                     k |-> k_last, d |-> d_last, adx |-> adx_last,
                     macd |-> macd_last, sig |-> sig_last, hist |-> hist_last,
                     ma5 |-> ma5_last, inst_4w_sum |-> inst_4w_sum,
                     inst_score |-> inst_score, score |-> score],
        entry_pass |-> entry_pass,
        conds_map |-> [cond1 |-> cond1, cond2 |-> cond2, cond3 |-> cond3,
                       cond4 |-> cond4, cond5 |-> cond5, cond6 |-> cond6],
        exit_reasons |-> r6]

\* x.iloc[-2:]: the last two rows of a series
Iloc_last2(s) == Tail_n(s, 2)

\* ADX fell on each of the last three bars (tw_stock_screen.py)
adx_weaken3_of(adxN) ==
    LET tail == Tail_n(DiffS(adxN), 3)
    IN /\ Len(DropNa(adxN)) >= 4
       /\ \A j \in 1..Len(tail) : Lt(tail[j], F(0))

\* screen_and_exit of tw_stock_screen.py: no exit settings, no institutional
\* data; the "previous" values are taken with last_scalar from a two-row slice
tw_stock_screen_screen_and_exit(df0, cfg) ==
    LET df == DropDuplicated(df0)
        c == Materialize([t \in 1..Len(df) |-> F(df[t].Close)])
        h == Materialize([t \in 1..Len(df) |-> F(df[t].High)])
        l == Materialize([t \in 1..Len(df) |-> F(df[t].Low)])
        v == Materialize([t \in 1..Len(df) |-> F(df[t].Volume)])
        ema_n_val == ema(c, cfg.ema_period)
        vol_fast == RollingMean(v, cfg.vol_fast)
        vol_slow == RollingMean(v, cfg.vol_slow)
        kd == stochastic_kd(h, l, c, cfg.kd_n, cfg.kd_k, cfg.kd_d)
        k == kd.k
        d == kd.d
        adxN == adx(h, l, c, cfg.adx_period)
        m == macd(c, cfg.macd_fast, cfg.macd_slow, cfg.macd_signal)
        ma5 == RollingMean(c, 5)
        close_last == last_scalar(c)
        ema_last == last_scalar(ema_n_val)
        vfast_last == last_scalar(vol_fast)
        vslow_last == last_scalar(vol_slow)
        k_last == last_scalar(k)
        d_last == last_scalar(d)
        adx_last == last_scalar(adxN)
        macd_last == last_scalar(m.macd_line)
        sig_last == last_scalar(m.signal_line)
        hist_last == last_scalar(m.hist)
        ma5_last == last_scalar(ma5)
        cond1 == Ge(close_last, ema_last)
        cond2 == Ge(vfast_last, vslow_last)
        cond3 == /\ Le(F(cfg.kmin), k_last) /\ Le(k_last, F(cfg.kmax))
                 /\ Le(F(cfg.dmin), d_last) /\ Le(d_last, F(cfg.dmax))
        cond4 == Gt(adx_last, F(cfg.adx_min))
        macd_pos == IF cfg.macd_require_positive THEN Gt(macd_last, F(0)) ELSE TRUE
        macd_cross == IF cfg.macd_require_cross THEN Gt(macd_last, sig_last) ELSE TRUE
        cond5 == macd_pos /\ macd_cross
        entry_pass == cond1 /\ cond2 /\ cond3 /\ cond4 /\ cond5
        prev_close == last_scalar(Iloc_last2(c))
        prev_ema == last_scalar(Iloc_last2(ema_n_val))
        k_prev == last_scalar(Iloc_last2(k))
        d_prev == last_scalar(Iloc_last2(d))
        r1 == AppendIf(<<>>, /\ Len(c) >= 2
                             /\ Lt(prev_close, prev_ema)
                             /\ Lt(close_last, ema_last), "trend_break_EMA")
        r2 == AppendIf(r1, Lt(vfast_last, vslow_last) /\ Lt(close_last, ma5_last),
                       "volume_fade")
        r3 == AppendIf(r2, Lt(macd_last, sig_last) /\ Lt(macd_last, F(0)),
                       "macd_flip_down")
        r4 == AppendIf(r3, Lt(adx_last, F(25)) \/ adx_weaken3_of(adxN), "adx_weaken")
        r5 == AppendIf(r4, /\ Len(DropNa(k)) >= 2
                           /\ Gt(k_prev, F(80))
                           /\ Gt(k_prev, d_prev)
                           /\ Lt(k_last, d_last), "kd_death_cross_>80")
    IN [metrics |-> [close |-> close_last, ema |-> ema_last,
                     vfast |-> vfast_last, vslow |-> vslow_last,
                     k |-> k_last, d |-> d_last, adx |-> adx_last,
                     macd |-> macd_last, sig |-> sig_last, hist |-> hist_last],
        entry_pass |-> entry_pass,
        conds_map |-> [cond1 |-> cond1, cond2 |-> cond2, cond3 |-> cond3,
                       cond4 |-> cond4, cond5 |-> cond5],
        exit_reasons |-> r5]

(***************************************************************************)
(* Inputs                                                                  *)
(***************************************************************************)
MaxLen == 5

Bar(date, o, h, l, c, v) ==
    [Date |-> date, Open |-> o, High |-> h, Low |-> l, Close |-> c, Volume |-> v]

\* bar shapes <<open, high, low, close, volume>>: a flat bar, ...
FlatShape == <<2, 2, 2, 2, 1>>

\* ... a rising, a falling and a wide bar with low <= open, close <= high, ...
TailShapes == { <<2, 3, 2, 3, 2>>, <<2, 2, 1, 1, 1>>, <<3, 3, 1, 2, 2>> }

\* ... and a bar that closes below its low: the price columns are any
\* non-negative numbers, nothing orders them
GapShape == <<3, 4, 3, 2, 1>>

BarShapes == {FlatShape, GapShape} \cup TailShapes

\* the frame whose t-th bar, dated t, has the t-th shape
Frame(shapes) ==
    [t \in 1..Len(shapes) |->
        Bar(t, shapes[t][1], shapes[t][2], shapes[t][3], shapes[t][4], shapes[t][5])]

SeqsOfLen(S, n) == [1..n -> S]

SeqsUpTo(S, n) == UNION { SeqsOfLen(S, m) : m \in 1..n }

\* periods of one to three bars, thresholds of DEFAULT_CFG
SmallCfg ==
    [ema_period |-> 3, vol_fast |-> 1, vol_slow |-> 2,
     kd_n |-> 2, kd_k |-> 1, kd_d |-> 2,
     kmin |-> 20, kmax |-> 80, dmin |-> 20, dmax |-> 80,
     adx_period |-> 2, adx_min |-> 33,
     macd_fast |-> 1, macd_slow |-> 3, macd_signal |-> 3,
     macd_require_positive |-> TRUE, macd_require_cross |-> TRUE,
     exit_ema_break_bars |-> 2, exit_volume_fade |-> TRUE, exit_macd_flip |-> TRUE,
     exit_adx_weaken |-> TRUE, exit_adx_weak_threshold |-> 25, exit_adx_weak_bars |-> 1,
     exit_kd_death_high |-> TRUE,
     score_w_trend |-> F(3), score_w_vol |-> F(2), score_w_adx |-> F(3),
     score_w_macd |-> F(2), score_w_inst |-> F(1),
     inst_lookback |-> 2, inst_norm |-> F(2),
     backtest_initial_capital |-> F(100), backtest_risk_per_trade |-> <<1, 2>>,
     backtest_commission_pct |-> <<1, 10>>, backtest_slippage_pct |-> <<1, 10>>,
     backtest_max_positions |-> 1, backtest_min_holding_days |-> 3]

\* every indicator window longer than the series: periods of 7, 15 and 31 bars
WideCfg ==
    [SmallCfg EXCEPT !.ema_period = 7, !.vol_fast = 7, !.vol_slow = 15,
                     !.kd_n = 7, !.kd_k = 7, !.kd_d = 7, !.adx_period = 7,
                     !.macd_fast = 7, !.macd_slow = 15, !.macd_signal = 7,
                     !.inst_lookback = 7]

NoInst == [given |-> FALSE, values |-> <<>>]

\* an institutional series aligned with the frame, v net lots on every bar
ConstInst(df, v) == [given |-> TRUE, values |-> [t \in 1..Len(df) |-> F(v)]]

InstChoices(df) == {NoInst, ConstInst(df, 1), ConstInst(df, -1)}

\* trend break, volume fade and the ADX rules switched off, a negative ADX
\* weight and no institutional normaliser
QuietCfg ==
    [SmallCfg EXCEPT !.exit_ema_break_bars = 0, !.exit_volume_fade = FALSE,
                     !.exit_adx_weaken = FALSE, !.score_w_adx = F(-3),
                     !.inst_norm = F(0)]

ScreenCfgs ==
    { SmallCfg, QuietCfg,
      [SmallCfg EXCEPT !.macd_require_positive = FALSE, !.macd_require_cross = FALSE,
                       !.exit_adx_weak_bars = 2, !.exit_ema_break_bars = 1,
                       !.inst_lookback = 7],
      WideCfg }

\* series of one to MaxLen bars that open with the flat bar
ScreenFrames ==
    { Frame(<<FlatShape>> \o rest)
        : rest \in {<<>>} \cup SeqsUpTo(BarShapes, MaxLen - 1) }

NoResult ==
    [metrics |-> [close |-> NaN, ema |-> NaN, vfast |-> NaN, vslow |-> NaN,
                  k |-> NaN, d |-> NaN, adx |-> NaN, macd |-> NaN, sig |-> NaN,
                  hist |-> NaN, ma5 |-> NaN, inst_4w_sum |-> NaN,
                  inst_score |-> NaN, score |-> NaN],
     entry_pass |-> FALSE,
     conds_map |-> [cond1 |-> FALSE, cond2 |-> FALSE, cond3 |-> FALSE,
                    cond4 |-> FALSE, cond5 |-> FALSE, cond6 |-> FALSE],
     exit_reasons |-> <<>>]

(***************************************************************************)
(* Price loader (load_price): blacklist, cache, Yahoo, fallback            *)
(***************************************************************************)
\* the calendar of the loader: days 1 .. MaxDay
MaxDay == 2

Days == 1..MaxDay

\* the stock codes asked for
Codes == {"2330.TW", "6488.TWO"}

\* None: no file, no download
NoFrame == [none |-> TRUE, days |-> {}]

\* a price frame is known by the days of its index
FrameOf(S) == [none |-> FALSE, days |-> S]

Frames == { FrameOf(S) : S \in SUBSET Days }

\* load_from_cache: no file or an unreadable one, or the frame of the file
CacheStates == {NoFrame} \cup Frames

\* yahoo_download: None, or the frame left by dropna (which may be empty)
YahooOutcomes == {NoFrame} \cup Frames

\* fallback_download: None or a frame with rows
FallbackOutcomes == {NoFrame} \cup (Frames \ {FrameOf({})})

\* df is not None and not df.empty
HasRows(f) == ~f.none /\ f.days # {}

\* df_cache.index.max()
IndexMax(f) == CHOOSE d \in f.days : \A e \in f.days : e <= d

\* pd.concat([a, b]) without duplicated days, sorted
ConcatFrames(a, b) == FrameOf(a.days \cup b.days)

\* load_price(code, start, end) on the blacklist and cache files as they are,
\* with what the two downloads of this call bring back; the result is the
\* value returned, the files afterwards and the steps taken
load_price(error_codes, cache, code, end, df_yf, df_fb) ==
    LET df_cache == cache[code]
        out(r, c, e, t) == [ret |-> r, cache |-> c, error_codes |-> e, trace |-> t]
        fresh(df_new, t) ==
            out(ConcatFrames(df_cache, df_new),
                [cache EXCEPT ![code] = ConcatFrames(df_cache, df_new)], error_codes, t)
    IN IF code \in error_codes
       THEN out(NoFrame, cache, error_codes, <<"blacklist">>)
       ELSE IF HasRows(df_cache)
       THEN IF IndexMax(df_cache) >= end
            THEN out(df_cache, cache, error_codes, <<"blacklist", "cache">>)
            ELSE IF HasRows(df_yf)
            THEN fresh(df_yf, <<"blacklist", "cache", "yahoo">>)
            ELSE IF HasRows(df_fb)
            THEN fresh(df_fb, <<"blacklist", "cache", "yahoo", "fallback">>)
            ELSE out(NoFrame, cache, error_codes \cup {code},
                     <<"blacklist", "cache", "yahoo", "fallback", "record">>)
       ELSE IF HasRows(df_yf)
       THEN out(df_yf, [cache EXCEPT ![code] = df_yf], error_codes,
                <<"blacklist", "cache", "yahoo">>)
       ELSE IF HasRows(df_fb)
       THEN out(df_fb, [cache EXCEPT ![code] = df_fb], error_codes,
                <<"blacklist", "cache", "yahoo", "fallback">>)
       ELSE out(NoFrame, cache, error_codes \cup {code},
                <<"blacklist", "cache", "yahoo", "fallback", "record">>)

NoCall == [code |-> "", end |-> 0, yahoo_rows |-> FALSE, fallback_rows |-> FALSE]

(***************************************************************************)
(* State                                                                   *)
(***************************************************************************)
VARIABLES df, cfg, inst_series, pc, i, cash, position, entry_price, entry_date,
          equity_curve, trades_pnl, trades_detail, res, stat,
          error_codes, cache, call, ret, trace, buys

vars == <<df, cfg, inst_series, pc, i, cash, position, entry_price, entry_date,
          equity_curve, trades_pnl, trades_detail, res, stat,
          error_codes, cache, call, ret, trace, buys>>

\* the files and the last call of the price loader
loader == <<error_codes, cache, call, ret, trace>>

locals == <<i, cash, position, entry_price, entry_date,
            equity_curve, trades_pnl, trades_detail, stat>>

NoDate == 0

NoStat == [n_trades |-> 0, final_equity |-> NaN, total_return |-> NaN, initial |-> NaN]

InitLocals ==
    /\ buys = 0
    /\ i = 0
    /\ cash = F(0)
    /\ position = 0
    /\ entry_price = F(0)
    /\ entry_date = NoDate
    /\ equity_curve = <<>>
    /\ trades_pnl = <<>>
    /\ trades_detail = <<>>
    /\ stat = NoStat

\* no loader call is part of the run
InitLoader ==
    /\ error_codes = {}
    /\ cache = [code \in Codes |-> NoFrame]
    /\ call = NoCall
    /\ ret = NoFrame
    /\ trace = <<>>

(***************************************************************************)
(* One evaluation of the signal engine on a short series                   *)
(***************************************************************************)
InitScreen ==
    /\ df \in ScreenFrames
    /\ cfg \in ScreenCfgs
    /\ inst_series \in InstChoices(df)
    /\ pc = "call"
    /\ res = NoResult
    /\ InitLocals
    /\ InitLoader

Evaluate ==
    /\ pc = "call"
    /\ UNCHANGED buys
    /\ UNCHANGED loader
    /\ res' = screen_and_exit(df, cfg, inst_series)
    /\ pc' = "returned"
    /\ UNCHANGED <<df, cfg, inst_series, locals>>

\* mutant: the second call appends to the reasons of the first
EvaluateAgain_carrying ==
    /\ pc = "returned"
    /\ UNCHANGED buys
    /\ UNCHANGED loader
    /\ LET r == screen_and_exit(df, cfg, inst_series)
       IN res' = [r EXCEPT !.exit_reasons = res.exit_reasons \o @]
    /\ pc' = "returned_twice"
    /\ UNCHANGED <<df, cfg, inst_series, locals>>

\* a second call on the same arguments
EvaluateAgain ==
    /\ pc = "returned"
    /\ UNCHANGED buys
    /\ UNCHANGED loader
    /\ res' = screen_and_exit(df, cfg, inst_series)
    /\ pc' = "returned_twice"
    /\ UNCHANGED <<df, cfg, inst_series, locals>>

NextScreen == Evaluate \/ EvaluateAgain

SpecScreen == InitScreen /\ [][NextScreen]_vars

(***************************************************************************)
(* The screening script's own signal engine (tw_stock_screen.py)          *)
(***************************************************************************)
\* one call of the script's engine on the frame
EvaluateScript ==
    /\ pc = "call"
    /\ UNCHANGED buys
    /\ UNCHANGED loader
    /\ res' = tw_stock_screen_screen_and_exit(df, cfg)
    /\ pc' = "script_returned"
    /\ UNCHANGED <<df, cfg, inst_series, locals>>

NextScript == EvaluateScript

SpecScript == InitScreen /\ [][NextScript]_vars


(***************************************************************************)
(* Calls of the price loader on the two files                              *)
(***************************************************************************)
\* no blacklist file yet, any cache directory
InitLoad ==
    /\ InitLocals
    /\ df = <<>> /\ cfg = SmallCfg /\ inst_series = NoInst
    /\ res = NoResult
    /\ pc = "idle"
    /\ error_codes = {}
    /\ cache \in [Codes -> CacheStates]
    /\ call = NoCall
    /\ ret = NoFrame
    /\ trace = <<>>

\* one call load_price(code, start, end)
LoadPrice ==
    /\ pc = "idle"
    /\ UNCHANGED buys
    /\ \E code \in Codes, end \in Days, df_yf \in YahooOutcomes, df_fb \in FallbackOutcomes :
         LET r == load_price(error_codes, cache, code, end, df_yf, df_fb)
         IN /\ ret' = r.ret
            /\ cache' = r.cache
            /\ error_codes' = r.error_codes
            /\ trace' = r.trace
            /\ call' = [code |-> code, end |-> end, yahoo_rows |-> HasRows(df_yf),
                        fallback_rows |-> HasRows(df_fb)]
    /\ UNCHANGED <<df, cfg, inst_series, pc, res, locals>>

NextLoad == LoadPrice

SpecLoad == InitLoad /\ [][NextLoad]_vars

(***************************************************************************)
(* Backtest simulator                                                      *)
(***************************************************************************)
\* first bar index the loop visits: range(50, n - 1)
Warmup == 50

MaxTail == 5

\* df.sort_index(): stable insertion sort on the date index
RECURSIVE InsertBar(_, _)
InsertBar(sorted, b) ==
    IF sorted = <<>> THEN <<b>>
    ELSE IF sorted[Len(sorted)].Date <= b.Date THEN Append(sorted, b)
    ELSE Append(InsertBar(SubSeq(sorted, 1, Len(sorted) - 1), b), sorted[Len(sorted)])

RECURSIVE sort_index(_)
sort_index(d) ==
    IF d = <<>> THEN <<>>
    ELSE InsertBar(sort_index(SubSeq(d, 1, Len(d) - 1)), d[Len(d)])

\* mutant: the slice reaches one bar past today
SubFrame_peek(d, j) == SubSeq(d, 1, j + 2)

\* df.iloc[: j + 1]
SubFrame(d, j) == SubSeq(d, 1, j + 1)

\* inst_series.iloc[: j + 1], None when there is no institutional series
SubInst(ins, j) ==
    IF ins.given THEN [given |-> TRUE, values |-> SubSeq(ins.values, 1, j + 1)] ELSE ins

\* closes[j] and opens[j + 1] for the 0-based bar index j
px_close_today(d, j) == F(d[j + 1].Close)

\* mutant: the open of the signal bar itself
px_open_same_bar(d, j) == F(d[j + 1].Open)

px_open_next(d, j) == F(d[j + 2].Open)

\* idx[j + 1], the date a signal of bar j is executed on
next_date(d, j) == d[j + 2].Date

\* the signal computed after the close of bar j
SignalAt(d, c, ins, j) == screen_and_exit(SubFrame(d, j), c, SubInst(ins, j))

One == F(1)

sell_price_of(px, c) == Mul(px, Sub(One, c.backtest_slippage_pct))

buy_price_of(px, c) == Mul(px, Add(One, c.backtest_slippage_pct))

alloc_of(cash_, c) == Mul(cash_, c.backtest_risk_per_trade)

\* int(alloc // buy_price)
qty_of(alloc, buy_price) == FloorF(Div(alloc, buy_price))

total_cost_without_fee(buy_price, qty, c) == Mul(buy_price, F(qty))

total_cost_of(buy_price, qty, c) ==
    LET cost == Mul(buy_price, F(qty))
        fee == Mul(cost, c.backtest_commission_pct)
    IN Add(cost, fee)

\* the record appended to trades_detail when qty shares are sold at sell_price
TradeRecord(c, e_date, e_price, x_date, sell_price, qty, reason) ==
    LET gross == Mul(sell_price, F(qty))
        fee == Mul(gross, c.backtest_commission_pct)
        profit == Sub(Sub(gross, fee), Mul(e_price, F(qty)))
    IN [entry_date |-> e_date, exit_date |-> x_date,
        entry_price |-> e_price, exit_price |-> sell_price, qty |-> qty,
        gross_pnl |-> Sub(gross, Mul(e_price, F(qty))), fee |-> fee, net_pnl |-> profit,
        ret |-> IF qty > 0 THEN Div(profit, Mul(e_price, F(qty))) ELSE F(0),
        reason |-> reason]

\* mutant: the fee is added to the proceeds
Proceeds_plus_fee(c, sell_price, qty) ==
    LET gross == Mul(sell_price, F(qty))
    IN Add(gross, Mul(gross, c.backtest_commission_pct))

\* mutant: the sale is credited without its commission
Proceeds_gross(c, sell_price, qty) == Mul(sell_price, F(qty))

\* cash received for qty shares sold at sell_price: gross - fee
Proceeds(c, sell_price, qty) ==
    LET gross == Mul(sell_price, F(qty))
    IN Sub(gross, Mul(gross, c.backtest_commission_pct))

\* the branch the loop body takes on the signal r with the state (cash_, position_)
sell_guard(position_, r) == position_ > 0 /\ r.exit_reasons # <<>>

\* mutant: a flat book buys whatever the signal says
buy_guard_no_signal(position_, r) == position_ = 0

\* mutant: an entry signal buys whatever is held
buy_guard_any_position(position_, r) == r.entry_pass

buy_guard(position_, r) == position_ = 0 /\ r.entry_pass

\* alloc // buy_price with buy_price = 0.0: ZeroDivisionError
buy_raises(cash_, px, c) ==
    Gt(alloc_of(cash_, c), F(0)) /\ buy_price_of(px, c) = F(0)

\* mutant: the total cost is not compared with the cash
buy_feasible_on_credit(cash_, px, c) ==
    LET alloc == alloc_of(cash_, c)
        buy_price == buy_price_of(px, c)
    IN Gt(alloc, F(0)) /\ qty_of(alloc, buy_price) > 0

buy_feasible(cash_, px, c) ==
    LET alloc == alloc_of(cash_, c)
        buy_price == buy_price_of(px, c)
    IN /\ Gt(alloc, F(0))
       /\ qty_of(alloc, buy_price) > 0
       /\ ~Gt(total_cost_of(buy_price, qty_of(alloc, buy_price), c), cash_)

\* a run of flat bars up to the warmup bar, then up to MaxTail moving bars
BacktestFrames ==
    { Frame([t \in 1..(Warmup - 1) |-> FlatShape] \o tail)
        : tail \in UNION { SeqsOfLen(TailShapes, m) : m \in 1..MaxTail } } \cup {<<>>}

\* the frames on which the accounts that cannot buy are also run
ShortRun == Warmup + 2

\* an account that risks nothing and one whose allocation buys no share
PoorCfgs ==
    { [SmallCfg EXCEPT !.backtest_risk_per_trade = F(0)],
      [SmallCfg EXCEPT !.backtest_initial_capital = F(4)] }

\* an account that pays a commission of one eighth
DearCfg == [SmallCfg EXCEPT !.backtest_commission_pct = <<1, 8>>]

\* half of the cash per trade without institutional data, all of it with
BacktestInputs(d) ==
    { <<SmallCfg, NoInst>>,
      <<[SmallCfg EXCEPT !.backtest_risk_per_trade = <<1, 1>>], ConstInst(d, 1)>> }
    \cup (IF Len(d) <= ShortRun THEN { <<c, NoInst>> : c \in PoorCfgs \cup {DearCfg} }
          ELSE {})

Init ==
    /\ df \in BacktestFrames
    /\ \E inp \in BacktestInputs(df) : cfg = inp[1] /\ inst_series = inp[2]
    /\ pc = "start"
    /\ res = NoResult
    /\ InitLocals
    /\ InitLoader

\* if df.empty: return {}, []
ReturnEmpty ==
    /\ pc = "start"
    /\ UNCHANGED buys
    /\ UNCHANGED loader
    /\ df = <<>>
    /\ pc' = "done"
    /\ UNCHANGED <<df, cfg, inst_series, res, locals>>

\* parameters and state variables before the loop
Begin ==
    /\ pc = "start"
    /\ UNCHANGED buys
    /\ UNCHANGED loader
    /\ df # <<>>
    /\ df' = sort_index(df)
    /\ cash' = cfg.backtest_initial_capital
    /\ position' = 0
    /\ entry_price' = F(0)
    /\ entry_date' = NoDate
    /\ equity_curve' = <<>>
    /\ trades_pnl' = <<>>
    /\ trades_detail' = <<>>
    /\ i' = Warmup
    /\ pc' = "loop"
    /\ UNCHANGED <<cfg, inst_series, res, stat>>

\* mutant: a bar held in position leaves no equity sample
EvalBar_unsampled ==
    /\ pc = "loop"
    /\ UNCHANGED buys
    /\ UNCHANGED loader
    /\ i < Len(df) - 1
    /\ equity_curve' = IF position > 0 THEN equity_curve ELSE Append(equity_curve, cash)
    /\ res' = SignalAt(df, cfg, inst_series, i)
    /\ pc' = "act"
    /\ UNCHANGED <<df, cfg, inst_series, i, cash, position, entry_price, entry_date,
                   trades_pnl, trades_detail, stat>>

\* loop head to the call of screen_and_exit: the equity sample and the signal
EvalBar ==
    /\ pc = "loop"
    /\ UNCHANGED buys
    /\ UNCHANGED loader
    /\ i < Len(df) - 1
    /\ equity_curve' = Append(equity_curve,
                              IF position > 0
                              THEN Add(cash, Mul(F(position), px_close_today(df, i)))
                              ELSE cash)
    /\ res' = SignalAt(df, cfg, inst_series, i)
    /\ pc' = "act"
    /\ UNCHANGED <<df, cfg, inst_series, i, cash, position, entry_price, entry_date,
                   trades_pnl, trades_detail, stat>>

\* mutant: the sell books the trade and keeps the position
Sell_keeping_position ==
    /\ pc = "act"
    /\ UNCHANGED buys
    /\ UNCHANGED loader
    /\ sell_guard(position, res)
    /\ LET sell_price == sell_price_of(px_open_next(df, i), cfg)
           t == TradeRecord(cfg, entry_date, entry_price, next_date(df, i), sell_price,
                            position, res.exit_reasons)
       IN /\ cash' = Add(cash, Proceeds(cfg, sell_price, position))
          /\ trades_pnl' = Append(trades_pnl, t.net_pnl)
          /\ trades_detail' = Append(trades_detail, t)
    /\ UNCHANGED <<position, entry_price, entry_date>>
    /\ i' = i + 1
    /\ pc' = "loop"
    /\ UNCHANGED <<df, cfg, inst_series, equity_curve, res, stat>>

\* holding and an exit signal: sell at the next open
Sell ==
    /\ pc = "act"
    /\ UNCHANGED buys
    /\ UNCHANGED loader
    /\ sell_guard(position, res)
    /\ LET sell_price == sell_price_of(px_open_next(df, i), cfg)
           t == TradeRecord(cfg, entry_date, entry_price, next_date(df, i), sell_price,
                            position, res.exit_reasons)
       IN /\ cash' = Add(cash, Proceeds(cfg, sell_price, position))
          /\ trades_pnl' = Append(trades_pnl, t.net_pnl)
          /\ trades_detail' = Append(trades_detail, t)
    /\ position' = 0
    /\ entry_price' = F(0)
    /\ entry_date' = NoDate
    /\ i' = i + 1
    /\ pc' = "loop"
    /\ UNCHANGED <<df, cfg, inst_series, equity_curve, res, stat>>

\* flat and an entry signal: buy at the next open
Buy ==
    /\ pc = "act"
    /\ buys' = buys + 1
    /\ UNCHANGED loader
    /\ ~sell_guard(position, res)
    /\ buy_guard(position, res)
    /\ ~buy_raises(cash, px_open_next(df, i), cfg)
    /\ buy_feasible(cash, px_open_next(df, i), cfg)
    /\ LET buy_price == buy_price_of(px_open_next(df, i), cfg)
           qty == qty_of(alloc_of(cash, cfg), buy_price)
       IN /\ cash' = Sub(cash, total_cost_of(buy_price, qty, cfg))
          /\ position' = qty
          /\ entry_price' = buy_price
    /\ entry_date' = next_date(df, i)
    /\ i' = i + 1
    /\ pc' = "loop"
    /\ UNCHANGED <<df, cfg, inst_series, equity_curve, trades_pnl, trades_detail,
                   res, stat>>

\* an entry signal the cash cannot follow: continue
SkipBuy ==
    /\ pc = "act"
    /\ UNCHANGED buys
    /\ UNCHANGED loader
    /\ ~sell_guard(position, res)
    /\ buy_guard(position, res)
    /\ ~buy_raises(cash, px_open_next(df, i), cfg)
    /\ ~buy_feasible(cash, px_open_next(df, i), cfg)
    /\ i' = i + 1
    /\ pc' = "loop"
    /\ UNCHANGED <<df, cfg, inst_series, cash, position, entry_price, entry_date,
                   equity_curve, trades_pnl, trades_detail, res, stat>>

\* neither branch applies
NoTrade ==
    /\ pc = "act"
    /\ UNCHANGED buys
    /\ UNCHANGED loader
    /\ ~sell_guard(position, res)
    /\ ~buy_guard(position, res)
    /\ i' = i + 1
    /\ pc' = "loop"
    /\ UNCHANGED <<df, cfg, inst_series, cash, position, entry_price, entry_date,
                   equity_curve, trades_pnl, trades_detail, res, stat>>

\* mutant: the forced exit is priced at the final bar's open
px_last_open(d) == F(d[Len(d)].Open)

\* float(closes[-1])
px_last_close(d) == F(d[Len(d)].Close)

\* after the loop with a position: close it at the last bar's close
Liquidate ==
    /\ pc = "loop"
    /\ UNCHANGED buys
    /\ UNCHANGED loader
    /\ ~(i < Len(df) - 1)
    /\ position > 0
    /\ LET sell_price == sell_price_of(px_last_close(df), cfg)
           t == TradeRecord(cfg, entry_date, entry_price, df[Len(df)].Date, sell_price,
                            position, <<"forced_liquidation">>)
       IN /\ cash' = Add(cash, Proceeds(cfg, sell_price, position))
          /\ trades_pnl' = Append(trades_pnl, t.net_pnl)
          /\ trades_detail' = Append(trades_detail, t)
    /\ position' = 0
    /\ entry_price' = F(0)
    /\ entry_date' = NoDate
    /\ pc' = "report"
    /\ UNCHANGED <<df, cfg, inst_series, i, equity_curve, res, stat>>

\* after the loop without a position
LoopEndFlat ==
    /\ pc = "loop"
    /\ UNCHANGED buys
    /\ UNCHANGED loader
    /\ ~(i < Len(df) - 1)
    /\ ~(position > 0)
    /\ pc' = "report"
    /\ UNCHANGED <<df, cfg, inst_series, res, locals>>

final_equity_of(cash_, curve) == IF curve = <<>> THEN cash_ ELSE curve[Len(curve)]

\* the summary statistics
Report ==
    /\ pc = "report"
    /\ UNCHANGED buys
    /\ UNCHANGED loader
    /\ LET final_equity == final_equity_of(cash, equity_curve)
           initial == cfg.backtest_initial_capital
       IN stat' = [n_trades |-> Len(trades_pnl),
                   final_equity |-> final_equity,
                   total_return |-> Sub(Div(final_equity, initial), One),
                   initial |-> initial]
    /\ pc' = "done"
    /\ UNCHANGED <<df, cfg, inst_series, i, cash, position, entry_price, entry_date,
                   equity_curve, trades_pnl, trades_detail, res>>

Next ==
    \/ ReturnEmpty
    \/ Begin
    \/ EvalBar
    \/ Sell
    \/ Buy
    \/ SkipBuy
    \/ NoTrade
    \/ Liquidate
    \/ LoopEndFlat
    \/ Report

Spec == Init /\ [][Next]_vars

(***************************************************************************)
(* The backtest on series that also hold a zero open price                 *)
(***************************************************************************)
\* the frame f with the open of bar p (counted from 1) at zero
ZeroOpenAt(f, p) == [f EXCEPT ![p].Open = 0]

\* short frames with a zero open on one of the first two execution bars
ZeroOpenFrames ==
    UNION { { ZeroOpenAt(f, p) : p \in {ShortRun, ShortRun + 1} \cap (1..Len(f)) }
              : f \in {g \in BacktestFrames : Len(g) \in {ShortRun, ShortRun + 1}} }

InitZero ==
    /\ df \in BacktestFrames \cup ZeroOpenFrames
    /\ \E inp \in BacktestInputs(df) : cfg = inp[1] /\ inst_series = inp[2]
    /\ pc = "start"
    /\ res = NoResult
    /\ InitLocals
    /\ InitLoader

\* flat, an entry signal, a positive allocation and a buy price of zero: the
\* floor division raises and the run ends with the exception
BuyRaises ==
    /\ pc = "act"
    /\ ~sell_guard(position, res)
    /\ buy_guard(position, res)
    /\ buy_raises(cash, px_open_next(df, i), cfg)
    /\ pc' = "raised"
    /\ UNCHANGED <<df, cfg, inst_series, res, locals, loader, buys>>

NextZero == Next \/ BuyRaises

SpecZero == InitZero /\ [][NextZero]_vars

(***************************************************************************)
(* What one loop iteration does, as a function of the frame                *)
(***************************************************************************)
\* the trade iteration j makes on frame d from the state (cash_, position_)
Decision(d, c, ins, j, cash_, position_) ==
    LET r == SignalAt(d, c, ins, j)
        px == px_open_next(d, j)
        buy_price == buy_price_of(px, c)
    IN IF sell_guard(position_, r)
       THEN [kind |-> "sell", price |-> sell_price_of(px, c), qty |-> position_,
             date |-> next_date(d, j)]
       ELSE IF buy_guard(position_, r) /\ buy_feasible(cash_, px, c)
       THEN [kind |-> "buy", price |-> buy_price,
             qty |-> qty_of(alloc_of(cash_, c), buy_price), date |-> next_date(d, j)]
       ELSE [kind |-> "none", price |-> F(0), qty |-> 0, date |-> NoDate]

LastTrade == trades_detail[Len(trades_detail)]

Sold == Len(trades_detail') = Len(trades_detail) + 1

Bought == pc = "act" /\ Lt(cash', cash)

(***************************************************************************)
(* Claims                                                                  *)
(***************************************************************************)
\* C1: a buy is executed only when no position is open and a sell (on a
\* signal or forced) only when one is open; a buy opens the one position
\* and a sell closes it.
C1_OnePosition ==
    [][ /\ Bought => position = 0 /\ position' > 0
        /\ Sold => position > 0 /\ position' = 0
        /\ position' # position => Bought \/ Sold ]_vars

\* a position re-opened after an earlier one was sold
C1_Witness == Len(trades_detail) >= 1 /\ position > 0

\* C2: a trade made on the signal of bar i (50 <= i <= n-2) is dated bar
\* i+1 and priced at open[i+1] * (1 + slippage) for a buy and
\* open[i+1] * (1 - slippage) for a sell; the signal is the one of bar i.
C2_OneBarDelay ==
    [][ pc = "act" =>
          /\ Warmup <= i /\ i <= Len(df) - 2
          /\ res = screen_and_exit(SubSeq(df, 1, i + 1), cfg, SubInst(inst_series, i))
          /\ Bought =>
               /\ entry_date' = df[i + 2].Date
               /\ entry_price' = Mul(F(df[i + 2].Open),
                                     Add(F(1), cfg.backtest_slippage_pct))
          /\ Sold =>
               /\ trades_detail'[Len(trades_detail')].exit_date = df[i + 2].Date
               /\ trades_detail'[Len(trades_detail')].exit_price
                    = Mul(F(df[i + 2].Open), Sub(F(1), cfg.backtest_slippage_pct)) ]_vars

\* a sell and an open position whose fill bar opened away from the signal bar
C2_Witness ==
    /\ pc = "loop"
    /\ i > Warmup
    /\ df[i + 1].Open # df[i].Open
    /\ \/ entry_date = df[i + 1].Date
       \/ trades_detail # <<>> /\ LastTrade.exit_date = df[i + 1].Date
          /\ LastTrade.reason # <<"forced_liquidation">>

\* the bar b with every column changed, except the open when keep_open
OtherBar(b, keep_open) ==
    [Date |-> b.Date, Open |-> IF keep_open THEN b.Open ELSE b.Open + 1,
     High |-> b.High + 2, Low |-> b.Low + 1, Close |-> b.Close + 2,
     Volume |-> b.Volume + 3]

\* C3: the trade of iteration i is the same on every frame (and every
\* institutional series) that agrees with df on bars 0..i and on the open
\* of bar i+1: same kind, same price, same quantity.
C3_NoLookahead ==
    [][ pc = "act" =>
          \A p \in (i + 2)..Len(df) :
             LET alt == [df EXCEPT ![p] = OtherBar(df[p], p = i + 2)]
                 alt_inst == IF inst_series.given
                             THEN [inst_series EXCEPT !.values[p] = F(-7)]
                             ELSE inst_series
                 dec == Decision(alt, cfg, alt_inst, i, cash, position)
             IN /\ (dec.kind = "sell") = Sold
                /\ (dec.kind = "buy") = Bought
                /\ Sold => /\ trades_detail'[Len(trades_detail')].exit_price = dec.price
                           /\ trades_detail'[Len(trades_detail')].qty = dec.qty
                /\ Bought => entry_price' = dec.price /\ position' = dec.qty ]_vars

\* a position bought at iteration i with at least two bars after bar i
C3_Witness == position > 0 /\ pc = "loop" /\ i < Len(df) - 1

\* C4: the run ends flat. Leaving the bar loop with an open position appends
\* exactly one trade that closes the whole quantity at the final bar's close
\* reduced by slippage, with reason forced_liquidation; leaving it flat
\* appends nothing; and position is 0 from the report on.
C4_EndsFlat ==
    [][ /\ pc = "loop" /\ pc' = "report" =>
             IF position > 0
             THEN /\ Len(trades_detail') = Len(trades_detail) + 1
                  /\ SubSeq(trades_detail', 1, Len(trades_detail)) = trades_detail
                  /\ LET t == trades_detail'[Len(trades_detail')]
                     IN /\ t.qty = position
                        /\ t.exit_price = Mul(F(df[Len(df)].Close),
                                              Sub(F(1), cfg.backtest_slippage_pct))
                        /\ t.exit_date = df[Len(df)].Date
                        /\ t.reason = <<"forced_liquidation">>
             ELSE trades_detail' = trades_detail
        /\ pc' \in {"report", "done"} => position' = 0 ]_vars

\* a finished run whose last trade is the forced one, priced off a close that
\* differs from the open of the final bar
C4_Witness ==
    /\ pc = "done" /\ trades_detail # <<>>
    /\ LastTrade.reason = <<"forced_liquidation">>
    /\ df[Len(df)].Open # df[Len(df)].Close

\* C5: every trade of the ledger exits on a date strictly later than the
\* date it entered.
C5_ExitAfterEntry ==
    \A k \in 1..Len(trades_detail) :
        trades_detail[k].exit_date > trades_detail[k].entry_date

\* the entry_pass of every bar the loop evaluates is false
NoEntryEver ==
    \A j \in Warmup..(Len(df) - 2) : ~SignalAt(df, cfg, inst_series, j).entry_pass

\* the outcome C6 describes: no trade, count 0, final equity = initial capital
Untouched ==
    /\ trades_detail = <<>>
    /\ stat.n_trades = 0
    /\ stat.final_equity = cfg.backtest_initial_capital
    /\ stat.total_return = F(0)

\* C6 as stated: on any frame where entry_pass is false at every evaluated
\* bar, the run returns no trade, a count of 0 and the initial capital.
C6_AsStated == pc = "done" => Untouched \/ ~NoEntryEver

\* C6: the same, for a frame with at least one bar (the empty frame returns
\* no statistics at all).
C6_NoSignalNoTrade == pc = "done" /\ df # <<>> => Untouched \/ ~NoEntryEver

\* a finished run over at least two evaluated bars, none of which passed
C6_Witness ==
    /\ pc = "done" /\ Len(equity_curve) >= 2
    /\ Untouched /\ NoEntryEver

(***************************************************************************)
(* Claims about one evaluation of the signal engine (SpecScreen)           *)
(***************************************************************************)
Has(reasons, code) == \E j \in 1..Len(reasons) : reasons[j] = code

IndicatorWindows(c) ==
    { c.ema_period, c.vol_fast, c.vol_slow, c.kd_n, c.kd_k, c.kd_d,
      c.adx_period, c.macd_fast, c.macd_slow, c.macd_signal }

ShorterThanEveryWindow(d, c) ==
    Len(d) >= 1 /\ \A w \in IndicatorWindows(c) : Len(d) < w

\* C7: a series of at least one bar that is shorter than every configured
\* indicator window yields entry_pass = FALSE and no exit reason.
C7_ShortSeriesClosed ==
    pc = "returned" /\ ShorterThanEveryWindow(df, cfg)
        => ~res.entry_pass /\ res.exit_reasons = <<>>

\* the five entry conditions restated on the values the evaluation reports
EntryConditions(m, c) ==
    /\ Ge(m.close, m.ema)
    /\ Ge(m.vfast, m.vslow)
    /\ Le(F(c.kmin), m.k) /\ Le(m.k, F(c.kmax))
    /\ Le(F(c.dmin), m.d) /\ Le(m.d, F(c.dmax))
    /\ Gt(m.adx, F(c.adx_min))
    /\ c.macd_require_positive => Gt(m.macd, F(0))
    /\ c.macd_require_cross => Gt(m.macd, m.sig)

\* C8: entry_pass is TRUE exactly when the five entry conditions hold, and
\* it is the same for an absent, a positive and a negative institutional
\* series.
C8_EntryIsFiveConditions ==
    pc = "returned" =>
        /\ res.entry_pass = EntryConditions(res.metrics, cfg)
        /\ \A ins \in InstChoices(df) :
              screen_and_exit(df, cfg, ins).entry_pass = res.entry_pass

\* an entry that passes although the institutional condition is false
C8_Witness ==
    /\ pc = "returned" /\ res.entry_pass
    /\ inst_series.given /\ ~res.conds_map.cond6

\* C9: a condition or exit rule that references a NaN value at the evaluated
\* bar is false / does not fire; adx_weaken with a NaN last ADX included.
C9_NaNFailsClosed ==
    pc = "returned" =>
        LET m == res.metrics
            cm == res.conds_map
            out == res.exit_reasons
        IN /\ IsNaN(m.close) \/ IsNaN(m.ema) => ~cm.cond1 /\ ~Has(out, "trend_break_EMA")
           /\ IsNaN(m.vfast) \/ IsNaN(m.vslow) => ~cm.cond2
           /\ IsNaN(m.k) \/ IsNaN(m.d) => ~cm.cond3 /\ ~Has(out, "kd_death_cross_>80")
           /\ IsNaN(m.adx) => /\ ~cm.cond4
                              /\ ~Has(out, "adx_below_threshold")
                              /\ ~Has(out, "adx_weaken")
           /\ IsNaN(m.macd) /\ (cfg.macd_require_positive \/ cfg.macd_require_cross)
                 => ~cm.cond5
           /\ IsNaN(m.sig) /\ cfg.macd_require_cross => ~cm.cond5
           /\ IsNaN(m.macd) \/ IsNaN(m.sig) => ~Has(out, "macd_flip_down")
           /\ IsNaN(m.vfast) \/ IsNaN(m.vslow) \/ IsNaN(m.close) \/ IsNaN(m.ma5)
                 => ~Has(out, "volume_fade")
           /\ (\E x \in {m.close, m.ema, m.vfast, m.vslow, m.k, m.d, m.adx} : IsNaN(x))
                 => ~res.entry_pass

\* the ADX series of the frame d under the configuration c
AdxSeries(d, c) ==
    adx([t \in 1..Len(d) |-> F(d[t].High)], [t \in 1..Len(d) |-> F(d[t].Low)],
        [t \in 1..Len(d) |-> F(d[t].Close)], c.adx_period)

\* s strictly decreased on each of its last n bars
DecreasedOnLast(s, n) ==
    Len(s) > n /\ \A t \in (Len(s) - n + 1)..Len(s) : Lt(s[t], s[t - 1])

\* C10: with exit_adx_weaken on, an ADX that strictly decreased on each of the
\* last exit_adx_weak_bars bars puts adx_weaken among the exit reasons,
\* wherever the last ADX stands against exit_adx_weak_threshold.
C10_AdxWeakenFires ==
    pc = "returned" /\ cfg.exit_adx_weaken
      /\ DecreasedOnLast(AdxSeries(df, cfg), cfg.exit_adx_weak_bars)
        => Has(res.exit_reasons, "adx_weaken")

\* a decreasing ADX whose last value is still at or above the threshold
C10_Witness ==
    /\ pc = "returned" /\ cfg.exit_adx_weaken
    /\ DecreasedOnLast(AdxSeries(df, cfg), cfg.exit_adx_weak_bars)
    /\ Ge(res.metrics.adx, F(cfg.exit_adx_weak_threshold))
    /\ Has(res.exit_reasons, "adx_weaken")

\* the reasons left once the codes of a set are taken out, order kept
Without(reasons, codes) == SelectSeq(reasons, LAMBDA r : r \notin codes)

\* the configuration entries that switch exit rules
ExitSwitches ==
    { "exit_ema_break_bars", "exit_volume_fade", "exit_macd_flip",
      "exit_adx_weaken", "exit_kd_death_high" }

\* the codes an entry governs
GovernedCodes(sw) ==
    CASE sw = "exit_ema_break_bars" -> {"trend_break_EMA"}
      [] sw = "exit_volume_fade" -> {"volume_fade"}
      [] sw = "exit_macd_flip" -> {"macd_flip_down"}
      [] sw = "exit_adx_weaken" -> {"adx_below_threshold", "adx_weaken"}
      [] sw = "exit_kd_death_high" -> {"kd_death_cross_>80"}

SwitchOff(c, sw) ==
    CASE sw = "exit_ema_break_bars" -> [c EXCEPT !.exit_ema_break_bars = 0]
      [] sw = "exit_volume_fade" -> [c EXCEPT !.exit_volume_fade = FALSE]
      [] sw = "exit_macd_flip" -> [c EXCEPT !.exit_macd_flip = FALSE]
      [] sw = "exit_adx_weaken" -> [c EXCEPT !.exit_adx_weaken = FALSE]
      [] sw = "exit_kd_death_high" -> [c EXCEPT !.exit_kd_death_high = FALSE]

SwitchOn(c, sw) ==
    CASE sw = "exit_ema_break_bars" ->
            IF c.exit_ema_break_bars > 0 THEN c ELSE [c EXCEPT !.exit_ema_break_bars = 1]
      [] sw = "exit_volume_fade" -> [c EXCEPT !.exit_volume_fade = TRUE]
      [] sw = "exit_macd_flip" -> [c EXCEPT !.exit_macd_flip = TRUE]
      [] sw = "exit_adx_weaken" -> [c EXCEPT !.exit_adx_weaken = TRUE]
      [] sw = "exit_kd_death_high" -> [c EXCEPT !.exit_kd_death_high = TRUE]

\* the exit reasons of the evaluated frame under the configuration c
ReasonsUnder(c) ==
    IF c = cfg THEN res.exit_reasons ELSE screen_and_exit(df, c, inst_series).exit_reasons

ExitCodes == UNION { GovernedCodes(sw) : sw \in ExitSwitches }

\* the one entry that can switch the code r off
ToggleOf(r) == CHOOSE sw \in ExitSwitches : r \in GovernedCodes(sw)

\* C11 as stated: every exit rule has a toggle of its own, and switching it
\* off takes exactly that rule's code out of exit_reasons.
C11_AsStated ==
    pc = "returned" =>
        \A r \in ExitCodes :
            ReasonsUnder(SwitchOff(cfg, ToggleOf(r)))
                = Without(ReasonsUnder(SwitchOn(cfg, ToggleOf(r))), {r})

\* C11: switching one of exit_volume_fade, exit_macd_flip, exit_kd_death_high
\* off takes exactly that rule's code out of exit_reasons; exit_adx_weaken
\* switches adx_below_threshold and adx_weaken together; trend_break_EMA is
\* switched off by exit_ema_break_bars = 0. No other code appears or goes.
C11_SwitchRemovesItsCodes ==
    pc = "returned" =>
        \A sw \in ExitSwitches :
            ReasonsUnder(SwitchOff(cfg, sw))
                = Without(ReasonsUnder(SwitchOn(cfg, sw)), GovernedCodes(sw))

\* volume_fade is switched off on a frame where it would fire, and another
\* rule fires
C11_Witness ==
    /\ pc = "returned" /\ ~cfg.exit_volume_fade
    /\ Has(res.exit_reasons, "macd_flip_down")
    /\ Has(ReasonsUnder(SwitchOn(cfg, "exit_volume_fade")), "volume_fade")

\* the five components of the score, from the values the evaluation reports
Components(m, c) ==
    [trend |-> trend_ratio_of(m.close, m.ema), vol |-> vol_ratio_of(m.vfast, m.vslow),
     adx |-> adx_ratio_of(c, m.adx), macd |-> macd_mom_of(m.hist, m.close),
     inst |-> m.inst_score]

ScoreAt(c, x) == score_of(c, x.trend, x.vol, x.adx, x.macd, x.inst)

\* x with one of its four technical components raised by a half, within the
\* component's range
Raised(x) ==
    { y \in { [x EXCEPT !.trend = Add(@, <<1, 2>>)], [x EXCEPT !.vol = Add(@, <<1, 2>>)],
              [x EXCEPT !.adx = Add(@, <<1, 2>>)], [x EXCEPT !.macd = Add(@, <<1, 2>>)] }
        : Le(y.trend, F(2)) /\ Le(y.vol, F(3)) /\ Le(y.adx, F(2)) }

\* C12: under every configuration the score does not go down when one of
\* trend ratio, volume ratio, ADX ratio and MACD momentum goes up and the
\* other components stay.
C12_ScoreMonotone ==
    pc = "returned" =>
        LET x == Components(res.metrics, cfg)
        IN ~IsNaN(ScoreAt(cfg, x)) =>
              \A y \in Raised(x) : Ge(ScoreAt(cfg, y), ScoreAt(cfg, x))

\* the four technical terms of the score, summed as the code sums them
TechnicalSum(c, x) ==
    Add(Add(Add(Mul(c.score_w_trend, x.trend), Mul(c.score_w_vol, x.vol)),
            Mul(c.score_w_adx, x.adx)),
        Mul(c.score_w_macd, x.macd))

\* no institutional series, or one with fewer than inst_lookback values
InstUnavailable ==
    ~inst_series.given \/ Len(DropNa(inst_series.values)) < cfg.inst_lookback

\* the configuration with another institutional weight and normaliser
WithInst(c, w, nrm) == [c EXCEPT !.score_w_inst = F(w), !.inst_norm = F(nrm)]

InstWeights == {-2, 0, 1, 3}

InstNorms == {-1, 0, 2, 5}

\* C13: without usable institutional data the institutional term is 0 and
\* the score is the technical weighted sum, whatever score_w_inst and
\* inst_norm are; with data and a trailing sum <= 0 the institutional score
\* is 0; it is never negative.
C13_AbsentInstIsZero ==
    pc = "returned" =>
        LET m == res.metrics
            x == Components(m, cfg)
        IN /\ InstUnavailable =>
                /\ IsNaN(m.inst_4w_sum)
                /\ m.inst_score = F(0)
                /\ m.score = TechnicalSum(cfg, x)
                /\ \A w \in InstWeights, nrm \in InstNorms :
                      LET c == WithInst(cfg, w, nrm)
                          s == inst_score_of(c, m.inst_4w_sum)
                      IN /\ Mul(c.score_w_inst, s) = F(0)
                         /\ ScoreAt(c, [x EXCEPT !.inst = s]) = TechnicalSum(c, x)
           /\ ~IsNaN(m.inst_4w_sum) /\ Le(m.inst_4w_sum, F(0)) =>
                /\ m.inst_score = F(0)
                /\ \A nrm \in InstNorms : inst_score_of(WithInst(cfg, 1, nrm), m.inst_4w_sum) = F(0)
           /\ Ge(m.inst_score, F(0))

\* an institutional series too short for the lookback, under a non-zero
\* institutional weight, with a defined score
C13_Witness ==
    /\ pc = "returned" /\ inst_series.given /\ InstUnavailable
    /\ cfg.score_w_inst # F(0) /\ ~IsNaN(res.metrics.score)

\* x lies in [lo, hi]; a NaN lies in no range
Within(x, lo, hi) == Le(F(lo), x) /\ Le(x, F(hi))

\* C14: the components that enter the weighted sum are in range and not NaN:
\* trend ratio in [0,2], volume ratio in [0,3], ADX ratio in [0,2], MACD
\* momentum >= 0, institutional score in [0,1].
C14_ComponentsInRange ==
    pc = "returned" =>
        LET x == Components(res.metrics, cfg)
        IN /\ Within(x.trend, 0, 2)
           /\ Within(x.vol, 0, 3)
           /\ Within(x.adx, 0, 2)
           /\ Ge(x.macd, F(0))
           /\ Within(x.inst, 0, 1)

C16_Cond6Unknown ==
    pc = "returned" =>
        IF IsNaN(res.metrics.inst_4w_sum)
        THEN res.conds_map.cond6 \notin {FALSE}
        ELSE res.conds_map.cond6 = Gt(res.metrics.inst_4w_sum, F(0))

(***************************************************************************)
(* Claims about the arithmetic of the backtest (Spec)                      *)
(***************************************************************************)
\* C17: in every run that iterates at least one bar, the reported final
\* equity is the cash of the terminal flat state.
C17_FinalEquityIsCash ==
    pc = "done" /\ Len(equity_curve) >= 1 =>
        position = 0 /\ stat.final_equity = cash

\* C18: a sell of q shares on the signal of bar i is priced at
\* open[i+1] * (1 - slippage); gross = price * q, fee = gross * commission;
\* cash grows by gross - fee; the trade's net P&L is gross - fee - entry
\* price * q and its return is net P&L / (entry price * q); position, entry
\* price and entry date are reset, and nothing else changes but the ledger
\* and the loop counter.
C18_SellArithmetic ==
    [][ pc = "act" /\ Sold =>
          LET q == position
              sell_price == Mul(F(df[i + 2].Open), Sub(F(1), cfg.backtest_slippage_pct))
              gross == Mul(sell_price, F(q))
              fee == Mul(gross, cfg.backtest_commission_pct)
              net == Sub(Sub(gross, fee), Mul(entry_price, F(q)))
              t == trades_detail'[Len(trades_detail')]
          IN /\ q > 0
             /\ cash' = Add(cash, Sub(gross, fee))
             /\ t.exit_price = sell_price /\ t.qty = q /\ t.fee = fee
             /\ t.entry_price = entry_price /\ t.entry_date = entry_date
             /\ t.gross_pnl = Sub(gross, Mul(entry_price, F(q)))
             /\ t.net_pnl = net
             /\ t.ret = Div(net, Mul(entry_price, F(q)))
             /\ t.reason = res.exit_reasons
             /\ trades_detail' = Append(trades_detail, t)
             /\ trades_pnl' = Append(trades_pnl, net)
             /\ position' = 0 /\ entry_price' = F(0) /\ entry_date' = NoDate
             /\ i' = i + 1
             /\ UNCHANGED <<df, cfg, inst_series, equity_curve, res, stat>> ]_vars

\* a signal-driven sell with a non-zero result is on the ledger
C18_Witness ==
    /\ pc = "loop" /\ trades_detail # <<>>
    /\ LastTrade.reason # <<"forced_liquidation">>
    /\ LastTrade.net_pnl # F(0) /\ position = 0

\* C19: on a step taken flat with entry_pass true at bar i, the allocation is
\* cash * risk_per_trade, the buy price is the open of bar i+1 raised by the
\* slippage and the quantity is floor(allocation / buy price); when the
\* allocation or the quantity is not positive, or buy price * quantity *
\* (1 + commission) exceeds the cash, cash and position stay as they were;
\* otherwise cash drops by exactly that total cost and the position becomes
\* the quantity (entered at the buy price on the date of bar i+1).
C19_BuyArithmetic ==
    [][ pc = "act" /\ position = 0 /\ res.entry_pass =>
          LET alloc == Mul(cash, cfg.backtest_risk_per_trade)
              buy_price == Mul(F(df[i + 2].Open), Add(F(1), cfg.backtest_slippage_pct))
              qty == FloorF(Div(alloc, buy_price))
              total == Mul(Mul(buy_price, F(qty)), Add(F(1), cfg.backtest_commission_pct))
          IN IF Le(alloc, F(0)) \/ qty <= 0 \/ Gt(total, cash)
             THEN UNCHANGED <<cash, position, entry_price, entry_date>>
             ELSE /\ cash' = Sub(cash, total)
                  /\ position' = qty
                  /\ entry_price' = buy_price
                  /\ entry_date' = df[i + 2].Date ]_vars

\* a buy was just executed: the cash is the capital less cost and fee
C19_Witness ==
    /\ pc = "loop" /\ position > 0 /\ trades_detail = <<>>
    /\ entry_date = df[i + 1].Date
    /\ Lt(cash, cfg.backtest_initial_capital)
    /\ cash = Sub(cfg.backtest_initial_capital,
                  Mul(Mul(entry_price, F(position)),
                      Add(F(1), cfg.backtest_commission_pct)))

(***************************************************************************)
(* Claims about single exit rules (SpecScreen)                             *)
(***************************************************************************)

\* the closes of the frame d and their EMA under the configuration c
CloseSeries(d) == [t \in 1..Len(d) |-> F(d[t].Close)]

EmaSeries(d, c) == ema(CloseSeries(d), c.ema_period)

\* the close is below the EMA on each of the last n bars of d
BelowEmaOnLast(d, c, n) ==
    \A t \in (Len(d) - n + 1)..Len(d) : Lt(CloseSeries(d)[t], EmaSeries(d, c)[t])

\* C20: trend_break_EMA is among the exit reasons exactly when
\* exit_ema_break_bars = N > 0, the series has at least N bars, and the close
\* is below the EMA on each of the last N bars.
C20_TrendBreakExact ==
    pc = "returned" =>
        ( Has(res.exit_reasons, "trend_break_EMA")
            <=> /\ cfg.exit_ema_break_bars > 0
                /\ Len(df) >= cfg.exit_ema_break_bars
                /\ BelowEmaOnLast(df, cfg, cfg.exit_ema_break_bars) )

\* two closes in a row below the EMA, after a bar that closed on it
C20_Witness ==
    /\ pc = "returned" /\ cfg.exit_ema_break_bars = 2 /\ Len(df) > 2
    /\ BelowEmaOnLast(df, cfg, 2)
    /\ ~BelowEmaOnLast(df, cfg, 3)
    /\ Has(res.exit_reasons, "trend_break_EMA")

\* the K and D series of the frame d under the configuration c
KdSeries(d, c) ==
    stochastic_kd([t \in 1..Len(d) |-> F(d[t].High)], [t \in 1..Len(d) |-> F(d[t].Low)],
                  CloseSeries(d), c.kd_n, c.kd_k, c.kd_d)

\* K above 80 and above D on the bar back bars before the last one, and K
\* below D on the last bar
DeathCrossFrom(d, c, back) ==
    LET kd == KdSeries(d, c)
        n == Len(d)
    IN /\ n > back
       /\ Gt(kd.k[n - back], F(80))
       /\ Gt(kd.k[n - back], kd.d[n - back])
       /\ Lt(kd.k[n], kd.d[n])

\* C21 as stated: with exit_kd_death_high on, the death-cross code is among
\* the exit reasons exactly when K > 80 and K > D two bars before the
\* evaluation bar and K < D at the evaluation bar.
C21_AsStated ==
    pc = "returned" /\ cfg.exit_kd_death_high =>
        (Has(res.exit_reasons, "kd_death_cross_>80") <=> DeathCrossFrom(df, cfg, 2))

\* C21: with exit_kd_death_high on, the death-cross code is among the exit
\* reasons exactly when K > 80 and K > D on the bar before the evaluation bar
\* and K < D at the evaluation bar.
C21_PreviousBar ==
    pc = "returned" /\ cfg.exit_kd_death_high =>
        (Has(res.exit_reasons, "kd_death_cross_>80") <=> DeathCrossFrom(df, cfg, 1))

\* the code fires on a cross from the previous bar that two bars back was
\* not there
C21_Witness ==
    /\ pc = "returned" /\ cfg.exit_kd_death_high
    /\ Has(res.exit_reasons, "kd_death_cross_>80")
    /\ DeathCrossFrom(df, cfg, 1) /\ ~DeathCrossFrom(df, cfg, 2)

(***************************************************************************)
(* Claims about the screening script's engine (SpecScript)                 *)
(***************************************************************************)

\* C22: the script reports trend_break_EMA exactly when the series has at
\* least two bars and the close is below the EMA on both of the last two bars.
C22_LastTwoBelow ==
    pc = "script_returned" =>
        ( Has(res.exit_reasons, "trend_break_EMA")
            <=> Len(df) >= 2 /\ BelowEmaOnLast(df, cfg, 2) )

\* C23: the script reports the KD death cross whenever K has two defined
\* values, K > 80 and K > D on the bar before the evaluation bar, and K < D
\* on the evaluation bar.
C23_DeathCrossReported ==
    pc = "script_returned" /\ Len(DropNa(KdSeries(df, cfg).k)) >= 2
      /\ DeathCrossFrom(df, cfg, 1)
        => Has(res.exit_reasons, "kd_death_cross_>80")

(***************************************************************************)
(* Claims about the course of the backtest (Spec)                          *)
(***************************************************************************)

\* the number of bars the loop visits on a series of n bars
VisitedBars(n) == IF n > Warmup + 1 THEN n - (Warmup + 1) ELSE 0

\* the shape of the run at each point of the loop over bars Warmup .. n-2
LoopShape ==
    LET n == Len(df)
    IN /\ pc = "loop" => i >= Warmup /\ Len(equity_curve) = i - Warmup
                          /\ i <= Warmup + VisitedBars(n)
       /\ pc = "act" =>
            /\ i >= Warmup /\ i <= n - 2
            /\ Len(equity_curve) = i - Warmup + 1
            /\ equity_curve[Len(equity_curve)]
                  = IF position > 0
                    THEN Add(cash, Mul(F(position), F(df[i + 1].Close)))
                    ELSE cash
       /\ pc \in {"report", "done"} =>
            /\ Len(equity_curve) = VisitedBars(n)
            /\ n <= Warmup + 1 => trades_detail = <<>> /\ res = NoResult

\* the bar index moves only forward, one bar at a time, when a bar's
\* decision is applied; a bar is evaluated once, sampled once, and the
\* samples already taken are kept
LoopStep ==
    /\ pc # "start" => i' = i \/ (pc = "act" /\ i' = i + 1)
    /\ pc = "act" => i' = i + 1 /\ pc' = "loop" /\ equity_curve' = equity_curve
    /\ pc = "loop" /\ pc' = "act" => Len(equity_curve') = Len(equity_curve) + 1
    /\ pc # "start" /\ pc' # "act" => equity_curve' = equity_curve
    /\ pc # "start" =>
          SubSeq(equity_curve', 1, Len(equity_curve)) = equity_curve

\* C24: the backtest visits the bar indices 50 .. n-2 in increasing order,
\* each once; at each it appends one equity sample (cash, plus quantity times
\* that bar's close when holding) before the bar's buy or sell is applied, so
\* the curve ends with max(0, n - 51) samples, a series of at most 51 bars is
\* never evaluated or traded, and the last bar's signal is never acted on.
C24_OneSamplePerBar == []LoopShape /\ [][LoopStep]_vars

\* a run over three visited bars that traded, finished
C24_Witness ==
    /\ pc = "done" /\ Len(df) = Warmup + 4
    /\ Len(equity_curve) = 3 /\ trades_detail # <<>>
    /\ \E j \in 1..3 : equity_curve[j] # cfg.backtest_initial_capital

\* the number of positions open at once
OpenPositions == IF position > 0 THEN 1 ELSE 0

\* the days a ledger trade was held, entry date to exit date
HeldDays(t) == t.exit_date - t.entry_date

\* C25: no position is closed on an exit signal fewer than
\* backtest_min_holding_days days after its entry date, and the number of
\* positions open at once never exceeds backtest_max_positions.
C25_HoldingLimits ==
    /\ OpenPositions <= cfg.backtest_max_positions
    /\ \A j \in 1..Len(trades_detail) :
          trades_detail[j].reason # <<"forced_liquidation">>
            => HeldDays(trades_detail[j]) >= cfg.backtest_min_holding_days

(***************************************************************************)
(* Claims about the price loader (SpecLoad)                                *)
(***************************************************************************)

\* C26: a code is put on the blacklist only when no price data at all is
\* available for it (cache missing or empty, and Yahoo and the fallback both
\* return nothing); a code with cached rows is never blacklisted and its
\* cached data is returned; once a code is blacklisted, every later call for
\* it returns None without reading the cache or downloading.
C26_BlacklistOnlyWithoutData ==
    [][ \A c \in Codes :
          /\ c \in error_codes' \ error_codes =>
                /\ ~HasRows(cache[c])
                /\ ~call'.yahoo_rows /\ ~call'.fallback_rows
          /\ HasRows(cache[c]) /\ c \notin error_codes /\ call'.code = c =>
                /\ c \notin error_codes'
                /\ HasRows(ret') /\ cache[c].days \subseteq ret'.days
          /\ c \in error_codes /\ call'.code = c =>
                /\ ret' = NoFrame /\ trace' = <<"blacklist">>
                /\ cache' = cache /\ error_codes' = error_codes ]_vars

\* each ledger trade is entered strictly after the trade before it was left
LedgerInOrder ==
    \A j \in 1..(Len(trades_detail) - 1) :
        trades_detail[j + 1].entry_date > trades_detail[j].exit_date

\* a step that books a trade opens no position, and a step that buys books
\* no trade
SellsOrBuys ==
    /\ Sold => buys' = buys /\ position' = 0
    /\ buys' # buys => trades_detail' = trades_detail /\ position' > 0

\* C27: the ledger is in time order without overlap: an iteration that
\* sells does not also buy, each trade is entered strictly after the trade
\* before it was left, and when the run ends the executed buys are as many as
\* the recorded trades.
C27_LedgerOrdered ==
    /\ [](LedgerInOrder /\ (pc = "done" => buys = Len(trades_detail)))
    /\ [][SellsOrBuys]_vars

\* a finished run with two trades, the second entered after the first left
C27_Witness ==
    /\ pc = "done" /\ Len(trades_detail) = 2 /\ buys = 2
    /\ trades_detail[2].entry_date > trades_detail[1].exit_date

(***************************************************************************)
(* Claims about the account of the backtest (SpecZero, Spec)               *)
(***************************************************************************)

\* C28: in every state of the run, on non-negative prices with the capital
\* non-negative and commission and slippage in [0, 1], the cash is not
\* negative, the position is a non-negative integer, and the entry price is
\* positive and the entry date set exactly when the position is positive.
C28_AccountInvariant ==
    /\ Ge(cash, F(0))
    /\ position \in Nat
    /\ position > 0 <=> Gt(entry_price, F(0))
    /\ position > 0 <=> entry_date # NoDate

\* holding again after a booked trade, with cash left
C28_Witness ==
    /\ pc = "loop" /\ position > 0 /\ trades_detail # <<>>
    /\ Gt(entry_price, F(0)) /\ entry_date # NoDate /\ Gt(cash, F(0))

(***************************************************************************)
(* Claims relating entry and exit on one evaluation (SpecScreen)           *)
(***************************************************************************)

\* C29: whenever entry_pass is true, the exit reasons hold neither
\* trend_break_EMA (when exit_ema_break_bars >= 1) nor volume_fade, nor
\* macd_flip_down when macd_require_positive or macd_require_cross is set,
\* nor adx_below_threshold when exit_adx_weak_threshold <= adx_min; only
\* adx_weaken and the KD death cross can accompany a passing entry.
C29_EntryExcludesExits ==
    pc = "returned" /\ res.entry_pass =>
        /\ cfg.exit_ema_break_bars >= 1 => ~Has(res.exit_reasons, "trend_break_EMA")
        /\ ~Has(res.exit_reasons, "volume_fade")
        /\ cfg.macd_require_positive \/ cfg.macd_require_cross
              => ~Has(res.exit_reasons, "macd_flip_down")
        /\ cfg.exit_adx_weak_threshold <= cfg.adx_min
              => ~Has(res.exit_reasons, "adx_below_threshold")

\* a passing entry accompanied by an exit reason
C29_Witness ==
    /\ pc = "returned" /\ res.entry_pass
    /\ cfg.exit_ema_break_bars >= 1
    /\ cfg.macd_require_positive \/ cfg.macd_require_cross
    /\ cfg.exit_adx_weak_threshold <= cfg.adx_min
    /\ res.exit_reasons # <<>>
    /\ \A j \in 1..Len(res.exit_reasons) :
          res.exit_reasons[j] \in {"adx_weaken", "kd_death_cross_>80"}

\* the sum of f over the first n ledger trades
RECURSIVE LedgerSum(_, _)
LedgerSum(f(_), n) == IF n = 0 THEN F(0) ELSE Add(LedgerSum(f, n - 1), f(trades_detail[n]))

\* the net P&L the ledger records for a trade
NetPnl(t) == t.net_pnl

\* the commission paid on the buy that opened a trade: cost * commission
BuyCommission(t) == Mul(Mul(t.entry_price, F(t.qty)), cfg.backtest_commission_pct)

\* C30: when the run ends, cash = initial capital + the sum of the net P&L
\* of the ledger trades - the sum of the commissions of the executed buys;
\* the buy commission is taken from the cash and is in no trade's recorded
\* fee or net P&L (the recorded fee is the sell commission alone).
C30_CashConservation ==
    pc = "done" /\ df # <<>> =>
        /\ cash = Sub(Add(cfg.backtest_initial_capital,
                          LedgerSum(NetPnl, Len(trades_detail))),
                      LedgerSum(BuyCommission, Len(trades_detail)))
        /\ \A j \in 1..Len(trades_detail) :
              LET t == trades_detail[j]
                  gross == Mul(t.exit_price, F(t.qty))
              IN /\ t.fee = Mul(gross, cfg.backtest_commission_pct)
                 /\ t.net_pnl = Sub(Sub(gross, t.fee), Mul(t.entry_price, F(t.qty)))

\* a finished run whose trade is counted as a win while the cash went down
C30_Witness ==
    /\ pc = "done" /\ Len(trades_detail) >= 1
    /\ \A j \in 1..Len(trades_detail) : Gt(trades_detail[j].net_pnl, F(0))
    /\ Lt(cash, cfg.backtest_initial_capital)
====
